---- MODULE Spec2Model ----
(***************************************************************************)
(* Model of the finite automaton engine (crate `finite`):                  *)
(*   src/src/automaton.rs  trait Automaton (constructors, run)             *)
(*   src/src/dfa.rs        DFA<S, I>, the conversion into NFA<S, I> and     *)
(*                         the derived document form                       *)
(*   src/src/nfa.rs        NFA<S, I> and the conversion into DFA<BTreeSet>  *)
(*                                                                         *)
(* Values:                                                                 *)
(*   Option<T>      None is <<>>, Some(x) is <<x>>                          *)
(*   HashMap<K, V>  a function whose DOMAIN is the key set                  *)
(*   HashSet<S>, BTreeSet<S>   a set                                        *)
(*   Result<(), AutomatonError<S>>   Ok or Err(id)                          *)
(* A panic (Result::unwrap on an Err) ends the program: pc = "panicked".   *)
(***************************************************************************)
EXTENDS Integers, Sequences, FiniteSets, TLC

\* ------------------------------------------------------------------ bounds
MaxId == 1
MaxLen == 2
MaxList == 2

\* the ids that states are created with, and one more id that never names a
\* state (the 99 of add_transition(0, 'z', 99))
IDs == 0..MaxId
AllIds == 0..(MaxId + 1)
Symbols == {"a", "b"}

RECURSIVE WordsOfLen(_)
WordsOfLen(n) ==
    IF n = 0 THEN {<<>>}
    ELSE {Append(w, s) : w \in WordsOfLen(n - 1), s \in Symbols}

Words == UNION {WordsOfLen(n) : n \in 0..MaxLen}

\* ------------------------------------------------------- container helpers
EmptyMap == [k \in {} |-> 0]

Insert(m, k, v) == [x \in (DOMAIN m) \cup {k} |-> IF x = k THEN v ELSE m[x]]

None == <<>>
Some(x) == <<x>>

Ok == <<"Ok">>
InexistentState(id) == <<"InexistentState", id>>

\* --------------------------------------------------------------------- DFA
DFA_State_new(accepts, transitions) ==
    [accepts |-> accepts, transitions |-> transitions]

DFA_default == [current |-> None, states |-> EmptyMap]

DFA_new_state(id) == id

DFA_has_state(d, id) == id \in DOMAIN d.states

\* mutant: an existing record keeps its transitions
DFA_add_state_keep(d, id, accept) ==
    IF DFA_has_state(d, id)
    THEN [d EXCEPT !.states[id].accepts = accept]
    ELSE [d EXCEPT !.states = Insert(@, id, DFA_State_new(accept, EmptyMap))]

DFA_add_state(d, id, accept) ==
    [d EXCEPT !.states = Insert(@, id, DFA_State_new(accept, EmptyMap))]

\* mutant: an existing entry is kept (entry(input).or_insert(next))
DFA_add_transition_keep(d, prev, input, next) ==
    IF ~DFA_has_state(d, next)
    THEN [res |-> InexistentState(next), aut |-> d]
    ELSE IF ~DFA_has_state(d, prev)
         THEN [res |-> InexistentState(prev), aut |-> d]
         ELSE [res |-> Ok,
               aut |-> [d EXCEPT !.states[prev].transitions =
                          IF input \in DOMAIN @ THEN @
                          ELSE Insert(@, input, next)]]

\* mutant: next is not checked
DFA_add_transition_unchecked(d, prev, input, next) ==
    IF ~DFA_has_state(d, prev)
    THEN [res |-> InexistentState(prev), aut |-> d]
    ELSE [res |-> Ok,
          aut |-> [d EXCEPT !.states[prev].transitions =
                                 Insert(@, input, next)]]

\* add_transition returns the Result and the automaton it leaves behind.
DFA_add_transition(d, prev, input, next) ==
    IF ~DFA_has_state(d, next)
    THEN [res |-> InexistentState(next), aut |-> d]
    ELSE IF ~DFA_has_state(d, prev)
         THEN [res |-> InexistentState(prev), aut |-> d]
         ELSE [res |-> Ok,
               aut |-> [d EXCEPT !.states[prev].transitions =
                                      Insert(@, input, next)]]

DFA_get_current(d) == d.current

DFA_set_current(d, id) ==
    [d EXCEPT !.current = IF DFA_has_state(d, id) THEN Some(id) ELSE None]

\* get_state(current).unwrap() panics when current names no state.
DFA_unwrap_panics(d) ==
    d.current # None /\ ~DFA_has_state(d, d.current[1])

\* mutant: the None arm answers true
DFA_accepts_dead_true(d) ==
    IF d.current = None THEN TRUE ELSE d.states[d.current[1]].accepts

DFA_accepts(d) ==
    IF d.current = None THEN FALSE ELSE d.states[d.current[1]].accepts

DFA_step(d, input) ==
    IF d.current = None THEN d
    ELSE LET transitions == d.states[d.current[1]].transitions
         IN  IF input \in DOMAIN transitions
                /\ DFA_has_state(d, transitions[input])
             THEN [d EXCEPT !.current = Some(transitions[input])]
             ELSE [d EXCEPT !.current = None]

\* The loop of run: [panic, aut] after feeding w to step.
RECURSIVE DFA_steps(_, _)
DFA_steps(d, w) ==
    IF w = <<>> THEN [panic |-> FALSE, aut |-> d]
    ELSE IF DFA_unwrap_panics(d) THEN [panic |-> TRUE, aut |-> d]
         ELSE DFA_steps(DFA_step(d, Head(w)), Tail(w))

\* mutant: the result is whether the automaton is still live after w
DFA_run_live(d, w) ==
    IF DFA_get_current(d) = None
    THEN [panic |-> FALSE, res |-> FALSE, aut |-> d]
    ELSE LET state == DFA_get_current(d)[1]
             after == DFA_steps(d, w)
         IN  IF after.panic \/ DFA_unwrap_panics(after.aut)
             THEN [panic |-> TRUE, res |-> FALSE, aut |-> after.aut]
             ELSE [panic |-> FALSE,
                   res   |-> DFA_get_current(after.aut) # None,
                   aut   |-> DFA_set_current(after.aut, state)]

DFA_run(d, w) ==
    IF DFA_get_current(d) = None
    THEN [panic |-> FALSE, res |-> FALSE, aut |-> d]
    ELSE LET state == DFA_get_current(d)[1]
             after == DFA_steps(d, w)
         IN  IF after.panic \/ DFA_unwrap_panics(after.aut)
             THEN [panic |-> TRUE, res |-> FALSE, aut |-> after.aut]
             ELSE [panic |-> FALSE,
                   res   |-> DFA_accepts(after.aut),
                   aut   |-> DFA_set_current(after.aut, state)]

DFA_from_map(initial, map) ==
    [current |-> IF initial \in DOMAIN map THEN Some(initial) ELSE None,
     states  |-> [k \in DOMAIN map |->
                     DFA_State_new(map[k][1], map[k][2])]]

\* --------------------------------------------------------------------- NFA
NFA_State_new(accepts, transitions) ==
    [accepts |-> accepts, transitions |-> transitions]

NFA_default == [current |-> {}, states |-> EmptyMap]

NFA_new_state(id) == {id}

NFA_has_state(n, id) == id \in DOMAIN n.states

NFA_add_state(n, id, accept) ==
    [n EXCEPT !.states = Insert(@, id, NFA_State_new(accept, EmptyMap))]

\* mutant: prev is looked up before next is checked
NFA_add_transition_prev_first(n, prev, input, next) ==
    IF ~NFA_has_state(n, prev)
    THEN [res |-> InexistentState(prev), aut |-> n]
    ELSE IF ~NFA_has_state(n, next)
         THEN [res |-> InexistentState(next), aut |-> n]
         ELSE LET transitions == n.states[prev].transitions
              IN  [res |-> Ok,
                   aut |-> [n EXCEPT !.states[prev].transitions =
                              IF input \in DOMAIN transitions
                              THEN [@ EXCEPT ![input] = @ \cup {next}]
                              ELSE Insert(@, input, NFA_new_state(next))]]

\* mutant: the target set is replaced (transitions.insert in both branches)
NFA_add_transition_replace(n, prev, input, next) ==
    IF ~NFA_has_state(n, next)
    THEN [res |-> InexistentState(next), aut |-> n]
    ELSE IF ~NFA_has_state(n, prev)
         THEN [res |-> InexistentState(prev), aut |-> n]
         ELSE [res |-> Ok,
               aut |-> [n EXCEPT !.states[prev].transitions =
                          Insert(@, input, NFA_new_state(next))]]

NFA_add_transition(n, prev, input, next) ==
    IF ~NFA_has_state(n, next)
    THEN [res |-> InexistentState(next), aut |-> n]
    ELSE IF ~NFA_has_state(n, prev)
         THEN [res |-> InexistentState(prev), aut |-> n]
         ELSE LET transitions == n.states[prev].transitions
              IN  [res |-> Ok,
                   aut |-> [n EXCEPT !.states[prev].transitions =
                              IF input \in DOMAIN transitions
                              THEN [@ EXCEPT ![input] = @ \cup {next}]
                              ELSE Insert(@, input, NFA_new_state(next))]]

NFA_get_current(n) == IF n.current # {} THEN Some(n.current) ELSE None

\* mutant: the known members are kept (filter instead of all)
NFA_set_current_partial(n, state) ==
    [n EXCEPT !.current = {el \in state : NFA_has_state(n, el)}]

NFA_set_current(n, state) ==
    IF \A el \in state : NFA_has_state(n, el)
    THEN [n EXCEPT !.current = state]
    ELSE [n EXCEPT !.current = {}]

\* The members of current that get_state(el).unwrap() panics on.
NFA_missing(n) == {el \in n.current : ~NFA_has_state(n, el)}

\* accepts is Iterator::any over a HashSet: it stops at the first accepting
\* member, and the iteration order of a HashSet is unspecified. The value is
\* the set of outcomes the order can produce: "true", "false" or "panic".
NFA_accepts(n) ==
    LET hit == \E el \in n.current \ NFA_missing(n) : n.states[el].accepts
    IN  (IF hit THEN {"true"} ELSE {})
        \cup (IF NFA_missing(n) # {} THEN {"panic"} ELSE {})
        \cup (IF ~hit /\ NFA_missing(n) = {} THEN {"false"} ELSE {})

\* step visits every member of current, so it panics iff one is missing;
\* current is assigned only after the loop.
NFA_step_panics(n) == NFA_missing(n) # {}

NFA_step(n, input) ==
    LET new == UNION {n.states[el].transitions[input] :
                        el \in {e \in n.current :
                                  input \in DOMAIN n.states[e].transitions}}
    IN  [n EXCEPT !.current = new]

RECURSIVE NFA_steps(_, _)
NFA_steps(n, w) ==
    IF w = <<>> THEN [panic |-> FALSE, aut |-> n]
    ELSE IF NFA_step_panics(n) THEN [panic |-> TRUE, aut |-> n]
         ELSE NFA_steps(NFA_step(n, Head(w)), Tail(w))

\* run: the set of outcomes [panic, res, aut].
NFA_run(n, w) ==
    IF NFA_get_current(n) = None
    THEN {[panic |-> FALSE, res |-> FALSE, aut |-> n]}
    ELSE LET state == NFA_get_current(n)[1]
             after == NFA_steps(n, w)
         IN  IF after.panic
             THEN {[panic |-> TRUE, res |-> FALSE, aut |-> after.aut]}
             ELSE {IF o = "panic"
                   THEN [panic |-> TRUE, res |-> FALSE, aut |-> after.aut]
                   ELSE [panic |-> FALSE,
                         res   |-> (o = "true"),
                         aut   |-> NFA_set_current(after.aut, state)]
                   : o \in NFA_accepts(after.aut)}

NFA_from_map(initial, map) ==
    [current |-> initial,
     states  |-> [k \in DOMAIN map |->
                     NFA_State_new(map[k][1], map[k][2])]]

\* ------------------------------------------------------------- DFA -> NFA
\* impl Into<NFA<S, I>> for DFA: current becomes a set of at most one id and
\* every target a one-element set; the result is built by NFA::from_map.
DFA_into_NFA(d) ==
    LET set == IF d.current # None THEN {d.current[1]} ELSE {}
    IN  NFA_from_map(set,
            [id \in DOMAIN d.states |->
                <<d.states[id].accepts,
                  [input \in DOMAIN d.states[id].transitions |->
                      {d.states[id].transitions[input]}]>>])

\* ------------------------------------------------- NFA -> DFA<BTreeSet<S>>
\* The orders in which a HashMap with key set S can be iterated.
Orders(S) ==
    {o \in [1..Cardinality(S) -> S] : \A i, j \in DOMAIN o : o[i] = o[j] => i = j}

Pow2(n) == 2 ^ n

\* mutant: for i in 0..size
SubsetIndices_from_zero(size) == 0..(size - 1)

\* for i in 1..size
SubsetIndices(size) == 1..(size - 1)

\* order is the iteration order of self.states; bit j of i selects the j-th
\* enumerated state (j counted from 0 in the code, from 1 here).
NFA_into_DFA(n, order) ==
    LET size == Pow2(Len(order))
        Members(i) == {j \in 1..Len(order) : (i \div Pow2(j - 1)) % 2 = 1}
        state_set(i) == {order[j] : j \in Members(i)}
        accepts(i) == \E j \in Members(i) : n.states[order[j]].accepts
        transition_map(i) ==
            LET inputs == UNION {DOMAIN n.states[order[j]].transitions :
                                   j \in Members(i)}
            IN  [input \in inputs |->
                    UNION {n.states[order[j]].transitions[input] :
                             j \in {m \in Members(i) :
                                      input \in DOMAIN n.states[order[m]].transitions}}]
        keys == {state_set(i) : i \in SubsetIndices(size)}
        \* HashMap::insert: the last i inserted under a key wins
        LastI(k) == CHOOSE i \in SubsetIndices(size) :
                        /\ state_set(i) = k
                        /\ \A i2 \in SubsetIndices(size) : state_set(i2) = k => i2 <= i
        states == [k \in keys |-> <<accepts(LastI(k)), transition_map(LastI(k))>>]
    IN  DFA_from_map(n.current, states)

\* --------------------------------------------------------------- documents
\* #[derive(Serialize, Deserialize)] with #[serde(default, deny_unknown_fields)].
\* A document is a mapping with the fields current and states. A state record
\* is a node <<"map", fields>> or, in the shorthand, <<"seq", <<accepts,
\* transitions>>>>; an Option is Null or <<"id", x>>. A field that is absent
\* takes its Default.
Null == <<"null">>

State_serialize(state) ==
    <<"map", [accepts |-> state.accepts, transitions |-> state.transitions]>>

State_deserialize(node) ==
    IF node[1] = "seq"
    THEN [accepts |-> node[2][1], transitions |-> node[2][2]]
    ELSE [accepts     |-> IF "accepts" \in DOMAIN node[2]
                          THEN node[2].accepts ELSE FALSE,
          transitions |-> IF "transitions" \in DOMAIN node[2]
                          THEN node[2].transitions ELSE EmptyMap]

DFA_serialize(d) ==
    [current |-> IF d.current = None THEN Null ELSE <<"id", d.current[1]>>,
     states  |-> [k \in DOMAIN d.states |-> State_serialize(d.states[k])]]

DFA_deserialize(doc) ==
    [current |-> IF "current" \in DOMAIN doc /\ doc.current # Null
                 THEN Some(doc.current[2]) ELSE None,
     states  |-> IF "states" \in DOMAIN doc
                 THEN [k \in DOMAIN doc.states |-> State_deserialize(doc.states[k])]
                 ELSE EmptyMap]

\* a HashSet is written as a sequence in some order and collected again
NFA_serialize(n) ==
    [current |-> n.current,
     states  |-> [k \in DOMAIN n.states |-> State_serialize(n.states[k])]]

NFA_deserialize(doc) ==
    [current |-> IF "current" \in DOMAIN doc THEN doc.current ELSE {},
     states  |-> IF "states" \in DOMAIN doc
                 THEN [k \in DOMAIN doc.states |-> State_deserialize(doc.states[k])]
                 ELSE EmptyMap]

\* ------------------------------------------------------------------ inputs
\* Maps handed to from_map / found in a document: any key set and accept
\* flags, and at most one transition entry, whose target need not be a key.
Maps(Targets) ==
    UNION {
        {[k \in K |-> <<acc[k], EmptyMap>>] : acc \in [K -> BOOLEAN]}
        \cup
        {[k \in K |-> <<acc[k],
                        IF k = e[1] THEN Insert(EmptyMap, e[2], e[3])
                        ELSE EmptyMap>>] :
            acc \in [K -> BOOLEAN], e \in K \X Symbols \X Targets}
        : K \in SUBSET IDs}

RECURSIVE ListsOfLen(_, _)
ListsOfLen(S, n) ==
    IF n = 0 THEN {<<>>}
    ELSE {Append(l, x) : l \in ListsOfLen(S, n - 1), x \in S}

Lists(S) == UNION {ListsOfLen(S, n) : n \in 0..MaxList}

\* ------------------------------------------------------------------- state
VARIABLES
    pc,      \* "start" (nothing built), "built", "failed" (constructor
             \* returned Err), "panicked"
    engine,  \* "DFA", "NFA", or "SetDFA" for a DFA<BTreeSet<S>, I>
    aut,     \* the automaton: [current, states]
    last,    \* the most recent call: [op, args, res, pre], where pre is
             \* what get_current() returned before the call
    log      \* per (state, symbol): what the constructor and the successful
             \* add_transition calls put there since the state's record was
             \* created. NFA: the set of all targets put. DFA: [next, replaced],
             \* the latest target put and whether it replaced another target.

vars == <<pc, engine, aut, last, log>>

IsNFA == engine = "NFA"

\* The state ids S that calls are made with, and the Self::State values.
Ids == IF engine = "SetDFA" THEN SUBSET IDs ELSE IDs
Reprs == IF IsNFA THEN SUBSET IDs ELSE Ids

EmptyLog == [k \in {} |-> 0]

Init ==
    /\ pc = "start"
    /\ engine \in {"DFA", "NFA"}
    /\ aut = IF engine = "NFA" THEN NFA_default ELSE DFA_default
    /\ last = [op |-> "none", args |-> <<>>, res |-> <<>>, pre |-> <<>>]
    /\ log = EmptyLog

\* ------------------------------------- trait Automaton, by implementation
default(e) == IF e = "NFA" THEN NFA_default ELSE DFA_default

new_state(e, id) == IF e = "NFA" THEN NFA_new_state(id) ELSE DFA_new_state(id)

add_state(e, a, id, accept) ==
    IF e = "NFA" THEN NFA_add_state(a, id, accept) ELSE DFA_add_state(a, id, accept)

add_transition(e, a, prev, input, next) ==
    IF e = "NFA" THEN NFA_add_transition(a, prev, input, next)
    ELSE DFA_add_transition(a, prev, input, next)

set_current(e, a, state) ==
    IF e = "NFA" THEN NFA_set_current(a, state) ELSE DFA_set_current(a, state)

get_current(e, a) ==
    IF e = "NFA" THEN NFA_get_current(a) ELSE DFA_get_current(a)

has_state(e, a, id) ==
    IF e = "NFA" THEN NFA_has_state(a, id) ELSE DFA_has_state(a, id)

\* accepts: the possible outcomes, "true", "false" or "panic"
accepts(e, a) ==
    IF e = "NFA" THEN NFA_accepts(a)
    ELSE IF DFA_unwrap_panics(a) THEN {"panic"}
         ELSE {IF DFA_accepts(a) THEN "true" ELSE "false"}

step_panics(e, a) ==
    IF e = "NFA" THEN NFA_step_panics(a) ELSE DFA_unwrap_panics(a)

step(e, a, input) ==
    IF e = "NFA" THEN NFA_step(a, input) ELSE DFA_step(a, input)

\* run: the possible outcomes [panic, res, aut]
run(e, a, w) == IF e = "NFA" THEN NFA_run(a, w) ELSE {DFA_run(a, w)}

new(e) == default(e)

\* mutant: current is not set
with_state_dead(e, id, accept) == add_state(e, new(e), id, accept)

with_state(e, id, accept) ==
    set_current(e, add_state(e, new(e), id, accept), new_state(e, id))

RECURSIVE AddStates(_, _, _)
AddStates(e, a, states) ==
    IF states = <<>> THEN a
    ELSE AddStates(e, add_state(e, a, states[1][1], states[1][2]), Tail(states))

from_states(e, initial, states) ==
    set_current(e, AddStates(e, new(e), states), initial)

\* mutant: an Err does not end the loop, the last Err is returned
RECURSIVE AddTransitions_last_error(_, _, _)
AddTransitions_last_error(e, a, transitions) ==
    IF transitions = <<>> THEN [res |-> Ok, aut |-> a]
    ELSE LET t == Head(transitions)
             r == add_transition(e, a, t[1], t[2], t[3])
             rest == AddTransitions_last_error(e, r.aut, Tail(transitions))
         IN  IF r.res # Ok /\ rest.res = Ok THEN [res |-> r.res, aut |-> rest.aut]
             ELSE rest

\* The loop of from_transitions; `?` returns the first Err.
RECURSIVE AddTransitions(_, _, _)
AddTransitions(e, a, transitions) ==
    IF transitions = <<>> THEN [res |-> Ok, aut |-> a]
    ELSE LET t == Head(transitions)
             r == add_transition(e, a, t[1], t[2], t[3])
         IN  IF r.res # Ok THEN r
             ELSE AddTransitions(e, r.aut, Tail(transitions))

from_transitions(e, initial, states, transitions) ==
    AddTransitions(e, from_states(e, initial, states), transitions)

from_map(e, initial, map) ==
    IF e = "NFA" THEN NFA_from_map(initial, map) ELSE DFA_from_map(initial, map)

serialize(e, a) == IF e = "NFA" THEN NFA_serialize(a) ELSE DFA_serialize(a)

deserialize(e, doc) ==
    IF e = "NFA" THEN NFA_deserialize(doc) ELSE DFA_deserialize(doc)

\* ------------------------------------------------------------------ the log
LogAdd(e, l, prev, input, next) ==
    LET k == <<prev, input>>
    IN  IF e = "NFA"
        THEN Insert(l, k, (IF k \in DOMAIN l THEN l[k] ELSE {}) \cup {next})
        ELSE Insert(l, k, [next     |-> next,
                           replaced |-> k \in DOMAIN l
                                        /\ (l[k].replaced \/ l[k].next # next)])

\* add_state(id, _) creates a fresh record for id
LogDrop(l, id) == [k \in {x \in DOMAIN l : x[1] # id} |-> l[k]]

RECURSIVE LogAddAll(_, _, _)
LogAddAll(e, l, transitions) ==
    IF transitions = <<>> THEN l
    ELSE LET t == Head(transitions)
         IN  LogAddAll(e, LogAdd(e, l, t[1], t[2], t[3]), Tail(transitions))

\* the entries a constructor copied from a map
LogOfStates(e, states) ==
    [k \in {x \in (DOMAIN states) \X Symbols :
               x[2] \in DOMAIN states[x[1]].transitions}
       |-> IF e = "NFA" THEN states[k[1]].transitions[k[2]]
           ELSE [next |-> states[k[1]].transitions[k[2]], replaced |-> FALSE]]

\* ------------------------------------------------------------ constructors
Call(op, args, res) ==
    [op |-> op, args |-> args, res |-> res, pre |-> get_current(engine, aut)]

Built(a, op) ==
    /\ pc' = "built"
    /\ aut' = a
    /\ last' = Call(op, <<>>, Ok)
    /\ log' = LogOfStates(engine, a.states)
    /\ UNCHANGED engine

New ==
    /\ pc = "start"
    /\ Built(new(engine), "new")

WithState ==
    /\ pc = "start"
    /\ \E id \in IDs, accept \in BOOLEAN :
          /\ pc' = "built"
          /\ aut' = with_state(engine, id, accept)
          /\ last' = Call("with_state", <<id, accept>>, Ok)
          /\ log' = EmptyLog
          /\ UNCHANGED engine

FromStates ==
    /\ pc = "start"
    /\ \E initial \in Reprs, states \in Lists(IDs \X BOOLEAN) :
          Built(from_states(engine, initial, states), "from_states")

\* The states handed to from_transitions name each id once, in ascending
\* order; FromStates covers the lists that repeat an id.
FromTransitions ==
    /\ pc = "start"
    /\ \E initial \in Reprs,
          states \in {l \in Lists(IDs \X BOOLEAN) :
                        \A i \in 1..(Len(l) - 1) : l[i][1] < l[i + 1][1]},
          transitions \in Lists(IDs \X Symbols \X AllIds) :
          LET r == from_transitions(engine, initial, states, transitions)
          IN  /\ pc' = IF r.res = Ok THEN "built" ELSE "failed"
              /\ aut' = r.aut
              /\ last' = Call("from_transitions",
                               <<initial, states, transitions>>, r.res)
              /\ log' = IF r.res = Ok
                        THEN LogAddAll(engine, EmptyLog, transitions)
                        ELSE EmptyLog
              /\ UNCHANGED engine

FromMap ==
    /\ pc = "start"
    /\ \E initial \in Reprs, map \in Maps(Reprs) :
          LET a == from_map(engine, initial, map)
          IN  Built(a, "from_map")

\* #[derive(Deserialize)]: the fields are taken from the document as they
\* are. The documents have both fields and their state records in the
\* shorthand form.
Deserialize ==
    /\ pc = "start"
    /\ \E current \in (IF IsNFA THEN Reprs ELSE {Null} \cup {<<"id", id>> : id \in Ids}),
          map \in Maps(Reprs) :
          LET doc == [current |-> current,
                      states  |-> [k \in DOMAIN map |-> <<"seq", map[k]>>]]
          IN  Built(deserialize(engine, doc), "deserialize")

\* -------------------------------------------------------------- operations
Ready == pc = "built"

\* A converted DFA<BTreeSet<S>, I> is queried and driven, not extended.
Growable == engine # "SetDFA"

Done(a, op, args, res) ==
    /\ aut' = a
    /\ last' = Call(op, args, res)
    /\ UNCHANGED engine

Panic(a, op, args) ==
    /\ pc' = "panicked"
    /\ Done(a, op, args, <<>>)
    /\ UNCHANGED log

HasState ==
    /\ Ready
    /\ \E id \in Ids :
          /\ Done(aut, "has_state", <<id>>, has_state(engine, aut, id))
          /\ UNCHANGED <<pc, log>>

GetCurrent ==
    /\ Ready
    /\ Done(aut, "get_current", <<>>, get_current(engine, aut))
    /\ UNCHANGED <<pc, log>>

AddState ==
    /\ Ready
    /\ Growable
    /\ \E id \in IDs, accept \in BOOLEAN :
          /\ Done(add_state(engine, aut, id, accept), "add_state", <<id, accept>>, Ok)
          /\ log' = LogDrop(log, id)
          /\ UNCHANGED pc

AddTransition ==
    /\ Ready
    /\ Growable
    /\ \E prev \in IDs, input \in Symbols, next \in AllIds :
          LET r == add_transition(engine, aut, prev, input, next)
          IN  /\ Done(r.aut, "add_transition", <<prev, input, next>>, r.res)
              /\ log' = IF r.res = Ok THEN LogAdd(engine, log, prev, input, next)
                        ELSE log
              /\ UNCHANGED pc

SetCurrent ==
    /\ Ready
    /\ \E state \in Reprs :
          /\ Done(set_current(engine, aut, state), "set_current", <<state>>, Ok)
          /\ UNCHANGED <<pc, log>>

Accepts ==
    /\ Ready
    /\ \E o \in accepts(engine, aut) :
          IF o = "panic" THEN Panic(aut, "accepts", <<>>)
          ELSE /\ Done(aut, "accepts", <<>>, o = "true")
               /\ UNCHANGED <<pc, log>>

Step ==
    /\ Ready
    /\ \E input \in Symbols :
          IF step_panics(engine, aut) THEN Panic(aut, "step", <<input>>)
          ELSE /\ Done(step(engine, aut, input), "step", <<input>>, Ok)
               /\ UNCHANGED <<pc, log>>

Run ==
    /\ Ready
    /\ \E w \in Words :
          \E o \in run(engine, aut, w) :
              IF o.panic THEN Panic(o.aut, "run", <<>>)
              ELSE /\ Done(o.aut, "run", <<>>, o.res)
                   /\ UNCHANGED <<pc, log>>

\* impl Into<DFA<BTreeSet<S>, I>> for NFA: consumes the NFA, which last.args
\* keeps for reference.
IntoDFA ==
    /\ Ready
    /\ IsNFA
    /\ \E order \in Orders(DOMAIN aut.states) :
          /\ aut' = NFA_into_DFA(aut, order)
          /\ engine' = "SetDFA"
          /\ last' = Call("into_dfa", <<aut>>, Ok)
          /\ log' = LogOfStates("SetDFA", aut'.states)
          /\ UNCHANGED pc

\* impl Into<NFA<S, I>> for DFA<S, I>: consumes the DFA, which last.args
\* keeps for reference.
IntoNFA ==
    /\ Ready
    /\ engine = "DFA"
    /\ aut' = DFA_into_NFA(aut)
    /\ engine' = "NFA"
    /\ last' = Call("into_nfa", <<aut>>, Ok)
    /\ log' = LogOfStates("NFA", aut'.states)
    /\ UNCHANGED pc

\* The automaton is serialized and loaded again from the document.
Reload ==
    /\ Ready
    /\ Growable
    /\ Done(deserialize(engine, serialize(engine, aut)), "reload", <<>>, Ok)
    /\ log' = LogOfStates(engine, aut'.states)
    /\ UNCHANGED pc

Next ==
    \/ New \/ WithState \/ FromStates \/ FromTransitions \/ FromMap
    \/ Deserialize \/ Reload
    \/ HasState \/ GetCurrent \/ AddState \/ AddTransition \/ SetCurrent
    \/ Accepts \/ Step \/ Run
    \/ IntoDFA \/ IntoNFA

Spec == Init /\ [][Next]_vars

\* The automata of the public constructors and operations alone: no document
\* is loaded.
NextAPI ==
    \/ New \/ WithState \/ FromStates \/ FromTransitions \/ FromMap
    \/ HasState \/ GetCurrent \/ AddState \/ AddTransition \/ SetCurrent
    \/ Accepts \/ Step \/ Run
    \/ IntoDFA \/ IntoNFA

SpecAPI == Init /\ [][NextAPI]_vars

\* The automata built incrementally: created by new, with_state, from_states
\* or from_transitions and driven by the trait's operations.
NextIncremental ==
    \/ New \/ WithState \/ FromStates \/ FromTransitions
    \/ HasState \/ GetCurrent \/ AddState \/ AddTransition \/ SetCurrent
    \/ Accepts \/ Step \/ Run

SpecIncremental == Init /\ [][NextIncremental]_vars

\* ================================================================== claims
Known(id) == id \in DOMAIN aut.states

Dead == get_current(engine, aut) = None

\* the target set of (id, input) in an NFA; an absent entry is no target
Targets(id, input) ==
    IF input \in DOMAIN aut.states[id].transitions
    THEN aut.states[id].transitions[input] ELSE {}

Entry(l, k) == IF k \in DOMAIN l THEN l[k] ELSE {}

\* add_transition called for each transition in order, whatever it returns
RECURSIVE AddInOrder(_, _, _)
AddInOrder(e, a, transitions) ==
    IF transitions = <<>> THEN a
    ELSE LET t == Head(transitions)
         IN  AddInOrder(e, add_transition(e, a, t[1], t[2], t[3]).aut,
                        Tail(transitions))

\* the smallest member of a non-empty set of numbers
Min(S) == CHOOSE i \in S : \A j \in S : i <= j

\* C1: a run that returns leaves get_current() as it was before the call.
C1_RunKeepsCurrent ==
    (pc = "built" /\ last.op = "run") => get_current(engine, aut) = last.pre

\* C2: for the NFA N that was converted and every input sequence w, every
\* result N.run(w) can return is the result of run(w) on the converted DFA.
C2_DeterminizeSameLanguage ==
    (pc = "built" /\ last.op = "into_dfa") =>
        \A w \in Words :
            \A o \in NFA_run(last.args[1], w) :
                ~o.panic =>
                    LET d == DFA_run(aut, w) IN ~d.panic /\ d.res = o.res

\* C3: a call other than set_current made on a dead automaton (step above
\* all) returns, leaves it dead, and accepts() is false afterwards.
C3_DeadStaysDead ==
    (last.pre = None
       /\ last.op \in {"step", "run", "accepts", "has_state", "get_current",
                       "add_state", "add_transition", "into_dfa"})
    => (pc = "built" /\ Dead /\ accepts(engine, aut) = {"false"})

C3_Witness ==
    /\ last.op = "step"
    /\ last.pre = None
    /\ \E id \in DOMAIN aut.states :
          /\ aut.states[id].accepts
          /\ last.args[1] \in DOMAIN aut.states[id].transitions

\* C4: add_transition(prev, symbol, next) returns InexistentState(next) when
\* next is unknown, InexistentState(prev) when next is known and prev is not,
\* and a failing call changes nothing of the automaton.
C4_AddTransitionErrors ==
    [][last'.op = "add_transition" =>
         LET prev == last'.args[1]
             next == last'.args[3]
         IN  /\ next \notin DOMAIN aut.states
                  => last'.res = InexistentState(next)
             /\ (next \in DOMAIN aut.states /\ prev \notin DOMAIN aut.states)
                  => last'.res = InexistentState(prev)
             /\ (next \in DOMAIN aut.states /\ prev \in DOMAIN aut.states)
                  => last'.res = Ok
             /\ last'.res # Ok => (aut' = aut /\ pc' = pc)]_vars

C4_Witness ==
    /\ last.op = "add_transition"
    /\ ~Known(last.args[1])
    /\ ~Known(last.args[3])
    /\ last.args[1] # last.args[3]
    /\ last.res = InexistentState(last.args[3])
    /\ \E id \in DOMAIN aut.states : DOMAIN aut.states[id].transitions # {}

\* C5: current is always valid: a DFA's current is None or a known id, an
\* NFA's current is a set of known ids.
C5_CurrentValid ==
    pc = "built" =>
        IF IsNFA THEN \A el \in aut.current : Known(el)
        ELSE aut.current = None \/ Known(aut.current[1])

\* C6: no query or execution operation ever panics.
C6_NeverPanics == pc # "panicked"

\* C7: set_current(state) is all-or-nothing: if every id of state is known,
\* current becomes exactly state; if one is unknown, current becomes dead and
\* get_current() is None; states and transitions stay as they were.
C7_SetCurrentAllOrNothing ==
    [][last'.op = "set_current" =>
         LET state == last'.args[1]
             ids == IF IsNFA THEN state ELSE {state}
         IN  /\ pc' = "built"
             /\ aut'.states = aut.states
             /\ (\A id \in ids : id \in DOMAIN aut.states)
                  => aut'.current = (IF IsNFA THEN state ELSE Some(state))
             /\ (\E id \in ids : id \notin DOMAIN aut.states)
                  => /\ aut'.current = (IF IsNFA THEN {} ELSE None)
                     /\ get_current(engine', aut') = None]_vars

C7_Witness ==
    /\ last.op = "set_current"
    /\ IsNFA
    /\ \E id \in last.args[1] : Known(id)
    /\ \E id \in last.args[1] : ~Known(id)
    /\ last.pre # None
    /\ Dead

\* C8: in a DFA every (state, symbol) that add_transition succeeded on has one
\* target, the next of the most recent such call, and a step from state on
\* symbol moves current to exactly that target.
C8_DFAOverwrites ==
    (pc = "built" /\ engine = "DFA") =>
        /\ \A k \in DOMAIN log :
              /\ Known(k[1])
              /\ k[2] \in DOMAIN aut.states[k[1]].transitions
              /\ aut.states[k[1]].transitions[k[2]] = log[k].next
        /\ (last.op = "step" /\ last.pre # None)
              => LET k == <<last.pre[1], last.args[1]>>
                 IN  (k \in DOMAIN log /\ Known(log[k].next))
                        => aut.current = Some(log[k].next)

C8_Witness ==
    /\ pc = "built"
    /\ engine = "DFA"
    /\ last.op = "step"
    /\ last.pre # None
    /\ LET k == <<last.pre[1], last.args[1]>>
       IN  /\ k \in DOMAIN log
           /\ log[k].replaced
           /\ aut.current = Some(log[k].next)
           /\ k[1] # log[k].next

\* C9: in an NFA the target set of every (prev, symbol) is exactly the set of
\* the targets put there since prev's record was created: a successful
\* add_transition adds its next and drops none.
C9_NFAAccumulates ==
    (pc = "built" /\ IsNFA) =>
        /\ \A k \in DOMAIN log : Known(k[1])
        /\ \A id \in DOMAIN aut.states : \A input \in Symbols :
              Targets(id, input) = Entry(log, <<id, input>>)

C9_Witness ==
    /\ pc = "built"
    /\ IsNFA
    /\ last.op = "add_transition"
    /\ last.res = Ok
    /\ LET k == <<last.args[1], last.args[2]>>
       IN  /\ Cardinality(log[k]) > 1
           /\ Targets(k[1], k[2]) = log[k]

\* C10: the DFA converted from an NFA with n states has exactly 2^n - 1
\* states, the non-empty subsets of the NFA's state ids.
C10_AllSubsets ==
    (pc = "built" /\ last.op = "into_dfa") =>
        LET declared == DOMAIN last.args[1].states
        IN  /\ \A sigma \in (SUBSET declared) \ {{}} :
                  has_state(engine, aut, sigma)
            /\ ~has_state(engine, aut, {})
            /\ Cardinality(DOMAIN aut.states) = 2 ^ Cardinality(declared) - 1

\* the NFA had two states and no transition: only its current is reachable
C10_Witness ==
    /\ pc = "built"
    /\ last.op = "into_dfa"
    /\ Cardinality(DOMAIN last.args[1].states) > 1
    /\ \A id \in DOMAIN last.args[1].states :
          DOMAIN last.args[1].states[id].transitions = {}
    /\ Cardinality(DOMAIN aut.states) > 2

\* C11: the NFA lifted from a DFA D has D's state ids and accept flags, a
\* one-element target set for every target of D and the singleton of D's
\* current (empty when D is dead), and for every input sequence w its run(w)
\* returns what D.run(w) returns.
C11_LiftPreservesRun ==
    (pc = "built" /\ last.op = "into_nfa") =>
        LET D == last.args[1]
        IN  /\ DOMAIN aut.states = DOMAIN D.states
            /\ \A id \in DOMAIN D.states :
                  /\ aut.states[id].accepts = D.states[id].accepts
                  /\ DOMAIN aut.states[id].transitions
                        = DOMAIN D.states[id].transitions
                  /\ \A input \in DOMAIN D.states[id].transitions :
                        aut.states[id].transitions[input]
                          = {D.states[id].transitions[input]}
            /\ aut.current = (IF D.current = None THEN {} ELSE {D.current[1]})
            /\ \A w \in Words :
                  LET d == DFA_run(D, w)
                  IN  ~d.panic =>
                        \A o \in NFA_run(aut, w) : ~o.panic /\ o.res = d.res

\* C12: for a DFA with current s and every input sequence w, run(w) returns,
\* and it returns true iff s is live and there are states p[1] = s, ...,
\* p[Len(w) + 1] such that p[i] has an entry for w[i] whose target is the
\* state p[i + 1], and the last of them is accepting; it returns false
\* otherwise (dead current, or a symbol without an entry).
C12_DFARunSemantics ==
    (pc = "built" /\ ~IsNFA) =>
        \A w \in Words :
            LET r == DFA_run(aut, w)
                n == Len(w)
                follows ==
                    \E p \in [1..(n + 1) -> DOMAIN aut.states] :
                        /\ p[1] = aut.current[1]
                        /\ \A i \in 1..n :
                              /\ w[i] \in DOMAIN aut.states[p[i]].transitions
                              /\ aut.states[p[i]].transitions[w[i]] = p[i + 1]
                        /\ aut.states[p[n + 1]].accepts
            IN  /\ ~r.panic
                /\ r.res = (aut.current # None /\ follows)

\* C13: in an NFA, step(symbol) replaces current by the union of the target
\* sets for symbol of the members of current; accepts() is true iff a member
\* of current is accepting; and run(w) returns true iff a path labelled w
\* leads from a member of current to an accepting state, false otherwise.
C13_NFAExistential ==
    (pc = "built" /\ IsNFA) =>
        /\ last.op = "step" =>
              aut.current =
                  UNION {Targets(id, last.args[1]) :
                           id \in (IF last.pre = None THEN {} ELSE last.pre[1])}
        /\ accepts(engine, aut) =
              {IF \E el \in aut.current : Known(el) /\ aut.states[el].accepts
               THEN "true" ELSE "false"}
        /\ \A w \in Words :
              LET n == Len(w)
                  path ==
                      \E p \in [1..(n + 1) -> DOMAIN aut.states] :
                          /\ p[1] \in aut.current
                          /\ \A i \in 1..n : p[i + 1] \in Targets(p[i], w[i])
                          /\ aut.states[p[n + 1]].accepts
              IN  \A o \in NFA_run(aut, w) : ~o.panic /\ o.res = path

\* C14 as stated: when some transition of the list has an unknown target,
\* from_transitions fails with InexistentState(next) of the first such
\* transition.
C14_FailsOnFirstUnknownTarget ==
    last.op = "from_transitions" =>
        LET states == last.args[2]
            transitions == last.args[3]
            declared == {states[i][1] : i \in DOMAIN states}
            bad == {i \in DOMAIN transitions : transitions[i][3] \notin declared}
        IN  bad # {} => last.res = InexistentState(transitions[Min(bad)][3])

\* C14: from_transitions(initial, states, transitions) adds the transitions
\* in list order and fails on the first transition whose next or prev is
\* unknown, with InexistentState(next) when next is unknown and
\* InexistentState(prev) otherwise, having applied the transitions before it
\* and none after it; it returns Ok iff no transition is such, and the
\* automaton then equals from_states(initial, states) followed by the same
\* add_transition calls in order.
C14_FromTransitions ==
    last.op = "from_transitions" =>
        LET initial == last.args[1]
            states == last.args[2]
            transitions == last.args[3]
            declared == {states[i][1] : i \in DOMAIN states}
            bad == {i \in DOMAIN transitions :
                      \/ transitions[i][3] \notin declared
                      \/ transitions[i][1] \notin declared}
            base == from_states(engine, initial, states)
        IN  IF bad = {}
            THEN /\ last.res = Ok
                 /\ pc = "built"
                 /\ aut = AddInOrder(engine, base, transitions)
            ELSE LET t == transitions[Min(bad)]
                 IN  /\ last.res = IF t[3] \notin declared
                                   THEN InexistentState(t[3])
                                   ELSE InexistentState(t[1])
                     /\ pc = "failed"
                     /\ aut = AddInOrder(engine, base,
                                         SubSeq(transitions, 1, Min(bad) - 1))

\* the second of two transitions fails on its target, the first was applied
C14_Witness ==
    /\ last.op = "from_transitions"
    /\ pc = "failed"
    /\ Len(last.args[3]) = 2
    /\ last.res = InexistentState(last.args[3][2][3])
    /\ Known(last.args[3][1][1])
    /\ last.args[3][1][2] \in DOMAIN aut.states[last.args[3][1][1]].transitions

\* {states: {0: {accepts: false, transitions: {a: 0}}}, current: 0}
Document15 ==
    [current |-> <<"id", 0>>,
     states  |-> [k \in {0} |->
                    <<"map", [accepts |-> FALSE, transitions |-> [a |-> 0]]>>]]

Loaded15 == pc = "built" /\ engine = "DFA" /\ aut = DFA_deserialize(Document15)

\* C15 as stated: for the DFA loaded from Document15, run(['a', 'a'])
\* returns true, before and after serializing and reloading it.
C15_DocumentRunsTrue ==
    Loaded15 =>
        /\ DFA_run(aut, <<"a", "a">>).res = TRUE
        /\ DFA_run(DFA_deserialize(DFA_serialize(aut)), <<"a", "a">>).res = TRUE

\* C15: for the DFA loaded from Document15 (one non-accepting state 0 with a
\* self-loop on 'a', current 0), run(['a', 'a']) returns false, and it
\* returns false again after the DFA is serialized and reloaded.
C15_DocumentRunsFalse ==
    Loaded15 =>
        LET r == DFA_run(aut, <<"a", "a">>)
            reloaded == DFA_deserialize(DFA_serialize(r.aut))
            r2 == DFA_run(reloaded, <<"a", "a">>)
        IN  /\ ~r.panic /\ r.res = FALSE
            /\ ~r2.panic /\ r2.res = FALSE

C15_Witness ==
    /\ Loaded15
    /\ last.op = "run"
    /\ last.pre = Some(0)
    /\ last.res = FALSE

\* C16: new() yields an automaton with no states whose get_current() is None
\* and whose accepts() is false; with_state(id, accept) yields an automaton
\* whose only state is id, with current id (DFA: Some(id), NFA: {id}) and
\* accepts() equal to accept.
C16_Constructors ==
    /\ last.op = "new" =>
          /\ pc = "built"
          /\ DOMAIN aut.states = {}
          /\ get_current(engine, aut) = None
          /\ accepts(engine, aut) = {"false"}
    /\ last.op = "with_state" =>
          LET id == last.args[1]
              accept == last.args[2]
          IN  /\ pc = "built"
              /\ DOMAIN aut.states = {id}
              /\ DOMAIN aut.states[id].transitions = {}
              /\ aut.current = (IF IsNFA THEN {id} ELSE Some(id))
              /\ get_current(engine, aut) = Some(IF IsNFA THEN {id} ELSE id)
              /\ accepts(engine, aut) = {IF accept THEN "true" ELSE "false"}

C16_Witness ==
    /\ last.op = "with_state"
    /\ IsNFA
    /\ last.args[2]
    /\ aut.current = {last.args[1]}
    /\ accepts(engine, aut) = {"true"}

\* C18: for the NFA N that was converted into the DFA D and every input
\* sequence w that N can be stepped through, D stepped through w has as its
\* current N's current set after w, and is dead exactly when that set is
\* empty; with the empty w this is the initial correspondence.
C18_LockStep ==
    (pc = "built" /\ last.op = "into_dfa") =>
        \A w \in Words :
            LET n == NFA_steps(last.args[1], w)
                d == DFA_steps(aut, w)
            IN  ~n.panic =>
                  /\ ~d.panic
                  /\ d.aut.current = (IF n.aut.current = {} THEN None
                                      ELSE Some(n.aut.current))

\* C19: add_state(id, accept) returns normally and makes id's record the
\* flag accept with no outgoing transition, so that a step from id on any
\* symbol goes dead; current, the records of the other states and with them
\* the transitions that target id stay as they were.
C19_AddStateReplaces ==
    [][last'.op = "add_state" =>
         LET id == last'.args[1]
             accept == last'.args[2]
             from_id == set_current(engine', aut', new_state(engine', id))
         IN  /\ last'.res = Ok
             /\ pc' = pc
             /\ DOMAIN aut'.states = DOMAIN aut.states \cup {id}
             /\ aut'.states[id].accepts = accept
             /\ DOMAIN aut'.states[id].transitions = {}
             /\ aut'.current = aut.current
             /\ \A other \in DOMAIN aut.states \ {id} :
                   aut'.states[other] = aut.states[other]
             /\ \A input \in Symbols :
                   /\ ~step_panics(engine', from_id)
                   /\ get_current(engine', step(engine', from_id, input)) = None]_vars

\* id was current, is targeted by another state, and has been re-added
C19_Witness ==
    /\ pc = "built"
    /\ last.op = "add_state"
    /\ last.pre = Some(new_state(engine, last.args[1]))
    /\ get_current(engine, aut) = last.pre
    /\ \E other \in DOMAIN aut.states \ {last.args[1]} : \E input \in Symbols :
          /\ input \in DOMAIN aut.states[other].transitions
          /\ aut.states[other].transitions[input]
                = (IF IsNFA THEN {last.args[1]} ELSE last.args[1])

\* C20: on an automaton created by new, with_state, from_states or
\* from_transitions and driven by add_state, add_transition, set_current,
\* step and run, every stored transition target always names a state, no
\* operation removes a state id, and no step or accepts meets a missing
\* state.
C20_ReferentialIntegrity ==
    /\ [](/\ pc # "panicked"
          /\ pc = "built" =>
                \A id \in DOMAIN aut.states :
                    \A input \in DOMAIN aut.states[id].transitions :
                        IF IsNFA
                        THEN \A next \in aut.states[id].transitions[input] :
                                 Known(next)
                        ELSE Known(aut.states[id].transitions[input]))
    /\ [][pc = "built" => DOMAIN aut.states \subseteq DOMAIN aut'.states]_vars

\* a step has followed a stored transition to its target
C20_Witness ==
    /\ pc = "built"
    /\ last.op = "step"
    /\ last.pre # None
    /\ ~Dead
    /\ get_current(engine, aut) # last.pre

====
